---- MODULE Spec2Model ----
(***************************************************************************)
(* MemberPress migration script (src/main.py).                             *)
(*                                                                         *)
(* Strings are sequences of one-character strings, so that trimming,       *)
(* splitting and joining are computed character by character.  A Python    *)
(* dict is a function whose domain is its key set; a CSV row is a function  *)
(* from header names to cells.                                             *)
(***************************************************************************)
EXTENDS Integers, Sequences, FiniteSets, TLC

VARIABLES pc, cfg, mem, sub, tx, orig, member_id_map, subs_id_map, tx_id_map,
          out, args, ret

vars == <<pc, cfg, mem, sub, tx, orig, member_id_map, subs_id_map, tx_id_map,
          out, args, ret>>

mainVars == <<cfg, mem, sub, tx, orig, member_id_map, subs_id_map, tx_id_map, out>>

(***************************************************************************)
(* Bounds of the model.                                                    *)
(***************************************************************************)
MaxCellLen == 4

MaxIdRows == 3

MaxApplyRows == 2

MaxRows == 2

(***************************************************************************)
(* Strings.                                                                *)
(***************************************************************************)
None == <<"None">>

EmptyStr == <<>>

Space == " "

Delims == {",", ";", "|"}

SetMin(S) == CHOOSE x \in S : \A y \in S : x <= y

SetMax(S) == CHOOSE x \in S : \A y \in S : x >= y

\* str.strip(): drop leading and trailing whitespace
strip(s) ==
    LET idx == {i \in 1..Len(s) : s[i] # Space}
    IN  IF idx = {} THEN EmptyStr ELSE SubSeq(s, SetMin(idx), SetMax(idx))

Digit(d) == CASE d = 0 -> "0" [] d = 1 -> "1" [] d = 2 -> "2" [] d = 3 -> "3"
              [] d = 4 -> "4" [] d = 5 -> "5" [] d = 6 -> "6" [] d = 7 -> "7"
              [] d = 8 -> "8" [] d = 9 -> "9"

RECURSIVE NatStr(_)
NatStr(n) == IF n < 10 THEN <<Digit(n)>> ELSE NatStr(n \div 10) \o <<Digit(n % 10)>>

\* str(int): decimal representation
str(n) == IF n < 0 THEN <<"-">> \o NatStr(0 - n) ELSE NatStr(n)

DigitChars == {Digit(d) : d \in 0..9}

DigitVal(c) == CHOOSE d \in 0..9 : Digit(d) = c

RECURSIVE ParseNat(_)
ParseNat(s) == IF s = <<>> THEN 0 ELSE 10 * ParseNat(SubSeq(s, 1, Len(s) - 1)) + DigitVal(s[Len(s)])

\* value of a decimal string with an optional sign
ParseInt(s) ==
    IF s # <<>> /\ s[1] = "-" THEN 0 - ParseNat(Tail(s))
    ELSE IF s # <<>> /\ s[1] = "+" THEN ParseNat(Tail(s))
    ELSE ParseNat(s)

IsDecimal(s) ==
    LET body == IF s # <<>> /\ s[1] \in {"-", "+"} THEN Tail(s) ELSE s
    IN  body # <<>> /\ \A i \in 1..Len(body) : body[i] \in DigitChars

(***************************************************************************)
(* int(x) of a configuration value: None raises TypeError, a float is      *)
(* truncated toward zero, a string is parsed after trimming or raises      *)
(* ValueError.                                                             *)
(***************************************************************************)
NoneVal == [t |-> "none"]

IntVal(n) == [t |-> "int", v |-> n]

FloatVal(num, den) == [t |-> "float", num |-> num, den |-> den]

StrVal(s) == [t |-> "str", s |-> s]

py_int(x) ==
    CASE x.t = "none"  -> [ok |-> FALSE, v |-> 0]
      [] x.t = "int"   -> [ok |-> TRUE, v |-> x.v]
      [] x.t = "float" -> [ok |-> TRUE,
                           v |-> IF x.num >= 0 THEN x.num \div x.den
                                 ELSE 0 - ((0 - x.num) \div x.den)]
      [] x.t = "str"   -> IF IsDecimal(strip(x.s))
                          THEN [ok |-> TRUE, v |-> ParseInt(strip(x.s))]
                          ELSE [ok |-> FALSE, v |-> 0]

RECURSIVE Join(_)
\* "".join(parts)
Join(parts) == IF parts = <<>> THEN EmptyStr ELSE Head(parts) \o Join(Tail(parts))

\* All strings over chars of length at most n
StringsUpTo(chars, n) == UNION {[1..k -> chars] : k \in 0..n}

\* All sequences over S of length at most n
SeqsUpTo(S, n) == UNION {[1..k -> S] : k \in 0..n}

(***************************************************************************)
(* Dicts.                                                                  *)
(***************************************************************************)
EmptyDict == <<>>

Put(m, k, v) == [x \in (DOMAIN m) \cup {k} |-> IF x = k THEN v ELSE m[x]]

\* dict.get(k, default)
Get(r, k, default) == IF k \in DOMAIN r THEN r[k] ELSE default

(***************************************************************************)
(* build_mapping: keys trimmed, values trimmed, None value -> "",          *)
(* None key skipped, later entries win.  d.items is the ordered item list. *)
(***************************************************************************)
RECURSIVE build_mapping_items(_, _)
build_mapping_items(items, m) ==
    IF items = <<>> THEN m
    ELSE LET k == Head(items)[1]
             v == Head(items)[2]
         IN  IF k = None
             THEN build_mapping_items(Tail(items), m)
             ELSE build_mapping_items(Tail(items),
                      Put(m, strip(k), IF v = None THEN EmptyStr ELSE strip(v)))

build_mapping(d) ==
    IF d.absent \/ d.items = <<>> THEN EmptyDict
    ELSE build_mapping_items(d.items, EmptyDict)

(***************************************************************************)
(* map_value_exact: raw key, then trimmed key, else the raw value.         *)
(***************************************************************************)
map_value_exact(val, mapping) ==
    IF val = None THEN [new |-> EmptyStr, did |-> FALSE]
    ELSE IF val \in DOMAIN mapping THEN [new |-> mapping[val], did |-> TRUE]
    ELSE LET trimmed == strip(val)
         IN  IF trimmed \in DOMAIN mapping
             THEN [new |-> mapping[trimmed], did |-> TRUE]
             ELSE [new |-> val, did |-> FALSE]

(***************************************************************************)
(* re.split with the captured separator pattern (optional whitespace, one  *)
(* of , ; | and optional whitespace): tokens at odd positions (1-based),   *)
(* separators at even positions.  The match is the leftmost one and both   *)
(* whitespace runs are greedy.                                             *)
(***************************************************************************)
RECURSIVE re_split_from(_, _)
re_split_from(s, i) ==
    LET ds == {j \in i..Len(s) : s[j] \in Delims}
    IN  IF ds = {} THEN <<SubSeq(s, i, Len(s))>>
        ELSE LET d == SetMin(ds)
                 p == SetMin({q \in i..d : \A j \in q..(d-1) : s[j] = Space})
                 e == SetMax({q \in d..Len(s) : \A j \in (d+1)..q : s[j] = Space})
             IN  <<SubSeq(s, i, p-1), SubSeq(s, p, e)>> \o re_split_from(s, e+1)

\* Variant whose separator segments keep only the delimiter character
RECURSIVE re_split_from_bare(_, _)
re_split_from_bare(s, i) ==
    LET ds == {j \in i..Len(s) : s[j] \in Delims}
    IN  IF ds = {} THEN <<SubSeq(s, i, Len(s))>>
        ELSE LET d == SetMin(ds)
                 p == SetMin({q \in i..d : \A j \in q..(d-1) : s[j] = Space})
                 e == SetMax({q \in d..Len(s) : \A j \in (d+1)..q : s[j] = Space})
             IN  <<SubSeq(s, i, p-1), <<s[d]>> >> \o re_split_from_bare(s, e+1)

re_split_bare(cell) == re_split_from_bare(cell, 1)

re_split(cell) == re_split_from(cell, 1)

(***************************************************************************)
(* re.split on the delimiters alone: the pieces between delimiters.        *)
(***************************************************************************)
RECURSIVE re_split_delims_from(_, _)
re_split_delims_from(s, i) ==
    LET ds == {j \in i..Len(s) : s[j] \in Delims}
    IN  IF ds = {} THEN <<SubSeq(s, i, Len(s))>>
        ELSE <<SubSeq(s, i, SetMin(ds) - 1)>> \o re_split_delims_from(s, SetMin(ds) + 1)

re_split_delims(val) == re_split_delims_from(val, 1)

(***************************************************************************)
(* map_multivalue_cell_preserve_separators                                 *)
(***************************************************************************)
\* Variant that also looks up blank tokens
map_multivalue_cell_no_blank_skip(cell, mapping) ==
    IF cell = EmptyStr THEN [cell |-> cell, changed |-> FALSE]
    ELSE LET parts == re_split(cell)
             IsTok(i) == i % 2 = 1
             m(i) == map_value_exact(parts[i], mapping)
             newparts == [i \in 1..Len(parts) |->
                            IF IsTok(i) /\ m(i).did THEN m(i).new ELSE parts[i]]
         IN  [cell |-> Join(newparts),
              changed |-> \E i \in 1..Len(parts) : IsTok(i) /\ m(i).did]

map_multivalue_cell_preserve_separators(cell, mapping) ==
    IF cell = EmptyStr THEN [cell |-> cell, changed |-> FALSE]
    ELSE LET parts == re_split(cell)
             IsTok(i) == i % 2 = 1 /\ strip(parts[i]) # EmptyStr
             m(i) == map_value_exact(parts[i], mapping)
             newparts == [i \in 1..Len(parts) |->
                            IF IsTok(i) /\ m(i).did THEN m(i).new ELSE parts[i]]
         IN  [cell |-> Join(newparts),
              changed |-> \E i \in 1..Len(parts) : IsTok(i) /\ m(i).did]

(***************************************************************************)
(* build_id_map_sequential: first occurrence of a trimmed id gets the      *)
(* running counter, a repeated id keeps its assignment.                    *)
(***************************************************************************)
RECURSIVE build_id_map_every_row_loop(_, _, _, _)
build_id_map_every_row_loop(rows, id_col, mapping, current) ==
    IF rows = <<>> THEN mapping
    ELSE LET old == strip(Get(Head(rows), id_col, EmptyStr))
         IN  IF old \notin DOMAIN mapping
             THEN build_id_map_every_row_loop(Tail(rows), id_col,
                      Put(mapping, old, str(current)), current + 1)
             ELSE build_id_map_every_row_loop(Tail(rows), id_col, mapping, current + 1)

\* Variant whose counter advances on every row, repeated ids included
build_id_map_every_row(rows, id_col, start_at) ==
    build_id_map_every_row_loop(rows, id_col, EmptyDict, start_at)

RECURSIVE build_id_map_loop(_, _, _, _)
build_id_map_loop(rows, id_col, mapping, current) ==
    IF rows = <<>> THEN mapping
    ELSE LET old == strip(Get(Head(rows), id_col, EmptyStr))
         IN  IF old \notin DOMAIN mapping
             THEN build_id_map_loop(Tail(rows), id_col,
                      Put(mapping, old, str(current)), current + 1)
             ELSE build_id_map_loop(Tail(rows), id_col, mapping, current)

build_id_map_sequential(rows, id_col, start_at) ==
    build_id_map_loop(rows, id_col, EmptyDict, start_at)

(***************************************************************************)
(* remap_column_using_map: a cell whose trimmed value is a key is replaced *)
(* by the mapped id, any other cell is left as it is.                      *)
(***************************************************************************)
\* Variant that writes the trimmed value back when the id is not found
remap_column_trim_on_miss(rows, col, id_map) ==
    [i \in 1..Len(rows) |->
        LET old == strip(Get(rows[i], col, EmptyStr))
        IN  IF old \in DOMAIN id_map THEN Put(rows[i], col, id_map[old])
            ELSE Put(rows[i], col, old)]

\* Variant that looks the raw cell up, without trimming it
remap_column_untrimmed(rows, col, id_map) ==
    [i \in 1..Len(rows) |->
        LET old == Get(rows[i], col, EmptyStr)
        IN  IF old \in DOMAIN id_map THEN Put(rows[i], col, id_map[old]) ELSE rows[i]]

remap_column_using_map(rows, col, id_map) ==
    [i \in 1..Len(rows) |->
        LET old == strip(Get(rows[i], col, EmptyStr))
        IN  IF old \in DOMAIN id_map THEN Put(rows[i], col, id_map[old]) ELSE rows[i]]

(***************************************************************************)
(* apply_column_value_mapping (single-value mode)                          *)
(***************************************************************************)
SampleCap == 20

AddSample(samples, v) == IF Cardinality(samples) < SampleCap THEN samples \cup {v} ELSE samples

RECURSIVE apply_single_cols(_, _, _, _, _)
\* the inner loop over target_cols for one row
apply_single_cols(r, cols, mapping, samples, row_changed) ==
    IF cols = <<>> THEN [r |-> r, samples |-> samples, row_changed |-> row_changed]
    ELSE LET col == Head(cols)
             val == Get(r, col, EmptyStr)
             mv  == map_value_exact(val, mapping)
         IN  IF val # EmptyStr
             THEN IF mv.did
                  THEN apply_single_cols(Put(r, col, mv.new), Tail(cols), mapping,
                                         samples, TRUE)
                  ELSE apply_single_cols(r, Tail(cols), mapping,
                                         AddSample(samples, val), row_changed)
             ELSE apply_single_cols(r, Tail(cols), mapping, samples, row_changed)

RECURSIVE apply_single_rows(_, _, _, _)
\* the outer loop over rows
apply_single_rows(rows, cols, mapping, acc) ==
    IF rows = <<>> THEN acc
    ELSE LET one == apply_single_cols(Head(rows), cols, mapping, acc.unmapped_samples, FALSE)
         IN  apply_single_rows(Tail(rows), cols, mapping,
                [rows |-> Append(acc.rows, one.r),
                 changed_rows |-> acc.changed_rows + (IF one.row_changed THEN 1 ELSE 0),
                 unmapped_samples |-> one.samples])

\* Variant that does not remove the forbidden columns from the targets
apply_column_value_mapping_no_forbid(rows, columns, mapping, forbid_columns) ==
    IF rows = <<>> \/ columns = <<>> \/ DOMAIN mapping = {}
    THEN [rows |-> rows, changed_rows |-> 0, unmapped_samples |-> {}]
    ELSE LET Present(c) == c \in DOMAIN rows[1]
             present_cols == SelectSeq(columns, Present)
         IN  apply_single_rows(rows, present_cols, mapping,
                [rows |-> <<>>, changed_rows |-> 0, unmapped_samples |-> {}])

apply_column_value_mapping(rows, columns, mapping, forbid_columns) ==
    IF rows = <<>> \/ columns = <<>> \/ DOMAIN mapping = {}
    THEN [rows |-> rows, changed_rows |-> 0, unmapped_samples |-> {}]
    ELSE LET Present(c) == c \in DOMAIN rows[1]
             Allowed(c) == c \notin forbid_columns
             present_cols == SelectSeq(columns, Present)
             target_cols  == SelectSeq(present_cols, Allowed)
         IN  apply_single_rows(rows, target_cols, mapping,
                [rows |-> <<>>, changed_rows |-> 0, unmapped_samples |-> {}])

(***************************************************************************)
(* apply_multivalue_mapping (multi-value mode, no forbidden columns)       *)
(***************************************************************************)
\* the diagnostic scan of a cell none of whose tokens was mapped
multi_unmapped_sample(val, mapping, samples) ==
    LET NonBlank(t) == strip(t) # EmptyStr
        tokens == SelectSeq(re_split_delims(val), NonBlank)
        cand   == {i \in 1..Len(tokens) : strip(tokens[i]) \notin DOMAIN mapping}
    IN  IF cand # {} /\ Cardinality(samples) < SampleCap
        THEN samples \cup {strip(tokens[SetMin(cand)])}
        ELSE samples

RECURSIVE apply_multi_cols(_, _, _, _, _)
apply_multi_cols(r, cols, mapping, samples, row_changed) ==
    IF cols = <<>> THEN [r |-> r, samples |-> samples, row_changed |-> row_changed]
    ELSE LET col == Head(cols)
             val == Get(r, col, EmptyStr)
             mc  == map_multivalue_cell_preserve_separators(val, mapping)
         IN  IF val = EmptyStr
             THEN apply_multi_cols(r, Tail(cols), mapping, samples, row_changed)
             ELSE IF mc.changed
                  THEN apply_multi_cols(Put(r, col, mc.cell), Tail(cols), mapping,
                                        samples, TRUE)
                  ELSE apply_multi_cols(r, Tail(cols), mapping,
                                        multi_unmapped_sample(val, mapping, samples),
                                        row_changed)

RECURSIVE apply_multi_rows(_, _, _, _)
apply_multi_rows(rows, cols, mapping, acc) ==
    IF rows = <<>> THEN acc
    ELSE LET one == apply_multi_cols(Head(rows), cols, mapping, acc.unmapped_samples, FALSE)
         IN  apply_multi_rows(Tail(rows), cols, mapping,
                [rows |-> Append(acc.rows, one.r),
                 changed_rows |-> acc.changed_rows + (IF one.row_changed THEN 1 ELSE 0),
                 unmapped_samples |-> one.samples])

\* Variant that takes every requested column, present in the table or not
apply_multivalue_mapping_all_cols(rows, columns, mapping) ==
    IF rows = <<>> \/ columns = <<>> \/ DOMAIN mapping = {}
    THEN [rows |-> rows, changed_rows |-> 0, unmapped_samples |-> {}]
    ELSE apply_multi_rows(rows, columns, mapping,
                [rows |-> <<>>, changed_rows |-> 0, unmapped_samples |-> {}])

apply_multivalue_mapping(rows, columns, mapping) ==
    IF rows = <<>> \/ columns = <<>> \/ DOMAIN mapping = {}
    THEN [rows |-> rows, changed_rows |-> 0, unmapped_samples |-> {}]
    ELSE LET Present(c) == c \in DOMAIN rows[1]
             present_cols == SelectSeq(columns, Present)
         IN  apply_multi_rows(rows, present_cols, mapping,
                [rows |-> <<>>, changed_rows |-> 0, unmapped_samples |-> {}])

(***************************************************************************)
(* Idle values of the variables a specification does not use.              *)
(***************************************************************************)
NoTable == [headers |-> <<>>, rows |-> <<>>]

NoCall == [op |-> "none"]

MainIdle ==
    /\ cfg = EmptyDict /\ mem = NoTable /\ sub = NoTable /\ tx = NoTable
    /\ orig = EmptyDict
    /\ member_id_map = EmptyDict /\ subs_id_map = EmptyDict /\ tx_id_map = EmptyDict
    /\ out = EmptyDict

(***************************************************************************)
(* Specification of the multi-value cell mapper on its own.                *)
(***************************************************************************)
CellChars == {"a", "b", Space, ",", ";"}

Dict(items) == [absent |-> FALSE, items |-> items]

AbsentDict == [absent |-> TRUE, items |-> <<>>]

CellRawMappings ==
    { Dict(<< <<<<"a">>, <<"X">>>> >>),
      Dict(<< <<<<Space, "a", Space>>, <<Space, "X", "Y">>>>, <<<<"b">>, None>> >>),
      Dict(<< <<<<"a", Space, "b">>, <<"Z">>>>, <<None, <<"Q">>>> >>),
      Dict(<< <<<<Space>>, <<"E">>>>, <<<<"b">>, <<"a", ",", "a">>>> >>),
      AbsentDict }

InitCell ==
    /\ pc = "call"
    /\ args \in [cell : StringsUpTo(CellChars, MaxCellLen), raw : CellRawMappings]
    /\ ret = NoCall
    /\ MainIdle

CallMapCell ==
    /\ pc = "call"
    /\ ret' = map_multivalue_cell_preserve_separators(args.cell, build_mapping(args.raw))
    /\ pc' = "returned"
    /\ UNCHANGED <<args, mainVars>>

NextCell == CallMapCell

SpecCell == InitCell /\ [][NextCell]_vars

CellMapping == build_mapping(args.raw)

\* Segmentation of a cell stated per delimiter: the separator of the
\* delimiter at d runs from SepLo(s, d) to SepHi(s, d).
SepLo(s, d) ==
    LET q == SetMin({q \in 1..d : \A j \in q..(d-1) : s[j] = Space})
    IN  IF q < d /\ q > 1 /\ s[q-1] \in Delims THEN d ELSE q

SepHi(s, d) == SetMax({q \in d..Len(s) : \A j \in (d+1)..q : s[j] = Space})

LeadWs(t) ==
    LET idx == {i \in 1..Len(t) : t[i] # Space}
    IN  IF idx = {} THEN t ELSE SubSeq(t, 1, SetMin(idx) - 1)

TrailWs(t) ==
    LET idx == {i \in 1..Len(t) : t[i] # Space}
    IN  IF idx = {} THEN EmptyStr ELSE SubSeq(t, SetMax(idx) + 1, Len(t))

\* A mapped token is replaced as a whole, whitespace included
TokenReplaced(t, mapping) ==
    IF strip(t) = EmptyStr THEN t
    ELSE IF t \in DOMAIN mapping THEN mapping[t]
    ELSE IF strip(t) \in DOMAIN mapping THEN mapping[strip(t)]
    ELSE t

\* A mapped token keeps the whitespace around its text
TokenReplacedKeepWs(t, mapping) ==
    IF strip(t) = EmptyStr THEN t
    ELSE IF strip(t) \in DOMAIN mapping
         THEN LeadWs(t) \o mapping[strip(t)] \o TrailWs(t)
         ELSE t

RECURSIVE ExpectedCell(_, _, _, _)
ExpectedCell(s, from, mapping, keepWs) ==
    LET ds  == {d \in from..Len(s) : s[d] \in Delims}
        R(t) == IF keepWs THEN TokenReplacedKeepWs(t, mapping)
                ELSE TokenReplaced(t, mapping)
    IN  IF ds = {} THEN R(SubSeq(s, from, Len(s)))
        ELSE LET d == SetMin(ds)
             IN  R(SubSeq(s, from, SepLo(s, d) - 1))
                   \o SubSeq(s, SepLo(s, d), SepHi(s, d))
                   \o ExpectedCell(s, SepHi(s, d) + 1, mapping, keepWs)

\* C7 (as stated): the output is the input with each mapped token's text
\* replaced, every delimiter and every whitespace character around the
\* tokens unchanged, the whitespace before the first token and after the
\* last token of the cell included.
C7_AllWhitespacePreserved ==
    pc = "returned" => ret.cell = ExpectedCell(args.cell, 1, CellMapping, TRUE)

\* C7 (amended): the output is the input's token and separator segments in
\* order, every separator segment (one delimiter with the whitespace
\* adjacent to it) unchanged, every unmapped token unchanged and every
\* mapped token replaced as a whole by its replacement, so that whitespace
\* belonging to a mapped token (before the first token or after the last
\* token of the cell) is not kept; changed reports whether a token was mapped.
C7_SeparatorsPreserved ==
    pc = "returned" =>
        /\ ret.cell = ExpectedCell(args.cell, 1, CellMapping, FALSE)
        /\ ret.changed =
              (\E i \in 1..Len(re_split_delims(args.cell)) :
                  /\ strip(re_split_delims(args.cell)[i]) # EmptyStr
                  /\ strip(re_split_delims(args.cell)[i]) \in DOMAIN CellMapping)

\* A mapped token next to a separator that carries whitespace
C7_Witness ==
    /\ pc = "returned"
    /\ ret.changed
    /\ \E d \in 1..Len(args.cell) :
          /\ args.cell[d] \in Delims
          /\ SepLo(args.cell, d) < d
          /\ SepHi(args.cell, d) > d

NoTokenMatches(cell, mapping) ==
    \A i \in 1..Len(re_split_delims(cell)) :
        /\ re_split_delims(cell)[i] \notin DOMAIN mapping
        /\ strip(re_split_delims(cell)[i]) \notin DOMAIN mapping

\* C8: a cell in which no token matches a key, raw or trimmed, is returned
\* character for character and reported as unchanged.
C8_RoundTrip ==
    (pc = "returned" /\ NoTokenMatches(args.cell, CellMapping)) =>
        (ret.cell = args.cell /\ ret.changed = FALSE)

\* A cell with a leading delimiter, whitespace next to a delimiter and a
\* non-blank token, none of whose tokens is a key of a non-empty mapping
C8_Witness ==
    /\ pc = "returned"
    /\ DOMAIN CellMapping # {}
    /\ NoTokenMatches(args.cell, CellMapping)
    /\ Len(args.cell) >= 3
    /\ args.cell[1] \in Delims
    /\ \E d \in 2..Len(args.cell) : args.cell[d] \in Delims /\ SepLo(args.cell, d) < d
    /\ \E i \in 1..Len(args.cell) : args.cell[i] \notin Delims \cup {Space}

(***************************************************************************)
(* Specification of the sequential id assigner on one table.               *)
(***************************************************************************)
IdCells == {<<"7">>, <<Space, "7">>, <<"8">>, <<>>, <<Space>>}

IdCols == {"id", "ID"}

StartAts == {0 - 1, 9, 1000}

InitIds ==
    /\ pc = "call"
    /\ args \in [rows : SeqsUpTo([{"id"} -> IdCells], MaxIdRows),
                 id_col : IdCols, start_at : StartAts]
    /\ ret = NoCall
    /\ MainIdle

CallBuildIdMap ==
    /\ pc = "call"
    /\ ret' = [id_map |-> build_id_map_sequential(args.rows, args.id_col, args.start_at),
               rows |-> args.rows]
    /\ pc' = "built"
    /\ UNCHANGED <<args, mainVars>>

CallRemapColumn ==
    /\ pc = "built"
    /\ ret' = [ret EXCEPT !.rows = remap_column_using_map(ret.rows, args.id_col, ret.id_map)]
    /\ pc' = "remapped"
    /\ UNCHANGED <<args, mainVars>>

NextIds == CallBuildIdMap \/ CallRemapColumn

SpecIds == InitIds /\ [][NextIds]_vars

TrimmedId(i) == strip(Get(args.rows[i], args.id_col, EmptyStr))

DistinctIds == {TrimmedId(i) : i \in 1..Len(args.rows)}

FirstIdx(d) == SetMin({i \in 1..Len(args.rows) : TrimmedId(i) = d})

Rank(d) == Cardinality({e \in DistinctIds : FirstIdx(e) < FirstIdx(d)})

\* C1: the mapping's keys are exactly the distinct trimmed ids, the i-th of
\* them in first-occurrence order maps to the decimal string of start_at + i,
\* and an id that occurs first earlier gets the smaller new id.
C1_DenseFirstOccurrence ==
    pc \in {"built", "remapped"} =>
        /\ DOMAIN ret.id_map = DistinctIds
        /\ \A d \in DistinctIds : ret.id_map[d] = str(args.start_at + Rank(d))
        /\ Cardinality({ret.id_map[d] : d \in DistinctIds}) = Cardinality(DistinctIds)
        /\ \A d, e \in DistinctIds :
              FirstIdx(d) < FirstIdx(e) => ParseInt(ret.id_map[d]) < ParseInt(ret.id_map[e])

\* A repeated id (padded differently) followed by a new id
C1_Witness ==
    /\ pc = "built"
    /\ \E i, j, k \in 1..Len(args.rows) :
          /\ i < j /\ j < k
          /\ TrimmedId(i) = TrimmedId(j)
          /\ args.rows[i] # args.rows[j]
          /\ TrimmedId(k) # TrimmedId(i)

(***************************************************************************)
(* Specification of the two column value appliers on one table.            *)
(***************************************************************************)
ApplyCells == {<<"a">>, <<Space>>, <<>>, <<"c", ",", Space, "a">>}

ForbiddenCells == {<<"a">>, <<Space>>}

ApplyRows == {[h \in {"product_id", "subscr_id"} |->
                 IF h = "product_id" THEN c ELSE f] : c \in ApplyCells, f \in ForbiddenCells}

ApplyColumns == {<<>>, <<"product_id">>, <<"subscr_id">>, <<"gateway", "subscr_id">>,
                 <<"gateway", "subscr_id", "product_id">>}

ApplyRawMappings ==
    { Dict(<< <<<<"a">>, <<"X">>>> >>),
      Dict(<< <<<<Space>>, <<"E">>>>, <<<<"c">>, None>> >>),
      AbsentDict }

ApplyModes == {[multi |-> FALSE, forbid_columns |-> {}],
               [multi |-> FALSE, forbid_columns |-> {"subscr_id"}],
               [multi |-> TRUE,  forbid_columns |-> {}]}

InitApply ==
    /\ pc = "call"
    /\ args \in [rows : SeqsUpTo(ApplyRows, MaxApplyRows), columns : ApplyColumns,
                 raw : ApplyRawMappings, mode : ApplyModes]
    /\ ret = NoCall
    /\ MainIdle

CallApplySingle ==
    /\ pc = "call"
    /\ ~args.mode.multi
    /\ ret' = apply_column_value_mapping(args.rows, args.columns, build_mapping(args.raw),
                                         args.mode.forbid_columns)
    /\ pc' = "applied"
    /\ UNCHANGED <<args, mainVars>>

CallApplyMulti ==
    /\ pc = "call"
    /\ args.mode.multi
    /\ ret' = apply_multivalue_mapping(args.rows, args.columns, build_mapping(args.raw))
    /\ pc' = "applied"
    /\ UNCHANGED <<args, mainVars>>

NextApply == CallApplySingle \/ CallApplyMulti

SpecApply == InitApply /\ [][NextApply]_vars

Range(f) == {f[x] : x \in DOMAIN f}

ApplyHeaders == IF args.rows = <<>> THEN {} ELSE DOMAIN args.rows[1]

\* requested columns present in the table, minus the forbidden ones
EffectiveCols == (Range(args.columns) \cap ApplyHeaders) \ args.mode.forbid_columns

\* C9: the appliers change cells of effective columns only; with no
\* effective column, no row, no requested column or an empty mapping they
\* report 0 changed rows and leave every row as it was, with no column added.
C9_AbsentColumnNoChange ==
    pc = "applied" =>
        /\ Len(ret.rows) = Len(args.rows)
        /\ \A i \in 1..Len(args.rows) :
              /\ DOMAIN ret.rows[i] = DOMAIN args.rows[i]
              /\ \A c \in DOMAIN args.rows[i] :
                    c \notin EffectiveCols => ret.rows[i][c] = args.rows[i][c]
        /\ (EffectiveCols = {} \/ args.rows = <<>> \/ args.columns = <<>>
               \/ DOMAIN build_mapping(args.raw) = {})
              => (ret.changed_rows = 0 /\ ret.rows = args.rows)

\* Requested columns that are absent or forbidden, rows holding a key of
\* a non-empty mapping
C9_Witness ==
    /\ pc = "applied"
    /\ args.rows # <<>>
    /\ "gateway" \in Range(args.columns)
    /\ "subscr_id" \in Range(args.columns)
    /\ EffectiveCols = {}
    /\ \E i \in 1..Len(args.rows) : args.rows[i]["subscr_id"] \in DOMAIN build_mapping(args.raw)

IsBlank(cell) == strip(cell) = EmptyStr

\* C10: in single-value mode a cell that is empty or whitespace-only is
\* never looked up: it keeps its content, it is not recorded as an unmapped
\* sample, and a row with only such cells is not counted as changed.
C10_BlankNeverLookedUp ==
    (pc = "applied" /\ ~args.mode.multi) =>
        /\ \A i \in 1..Len(args.rows) : \A c \in EffectiveCols :
              IsBlank(args.rows[i][c]) =>
                  /\ ret.rows[i][c] = args.rows[i][c]
                  /\ args.rows[i][c] \notin ret.unmapped_samples
        /\ ret.changed_rows <=
              Cardinality({i \in 1..Len(args.rows) :
                              \E c \in EffectiveCols : ~IsBlank(args.rows[i][c])})

(***************************************************************************)
(* main: the migration run.                                                *)
(***************************************************************************)
Tables == {"members", "subscriptions", "transactions"}

default_product_cols ==
    [t \in Tables |->
        IF t = "members" THEN <<"memberships", "inactive_memberships">>
        ELSE <<"product_id", "membership_id", "product_name", "membership", "product">>]

default_gateway_cols ==
    [t \in {"subscriptions", "transactions"} |-> <<"gateway_id", "gateway">>]

hard_forbid_value_columns == {"subscr_id"}

NoIdCol == "<none>"

\* "ID" if present, else "id" if present, else none
member_id_col(headers) ==
    IF "ID" \in Range(headers) THEN "ID"
    ELSE IF "id" \in Range(headers) THEN "id" ELSE NoIdCol

\* (cfg.get(name) or {}).get(table, default)
ColsOf(colcfg, table, defaults) ==
    IF colcfg.absent THEN defaults[table] ELSE Get(colcfg.d, table, defaults[table])

\* write_csv_exact_headers: the header list, and for every row the cells of
\* the header columns, a missing one written as the empty string
write_csv_exact_headers(headers, rows) ==
    [headers |-> headers,
     rows |-> [i \in 1..Len(rows) |->
                 [h \in Range(headers) |-> Get(rows[i], h, EmptyStr)]]]

\* Inputs of a run: the configuration document
StartMembers == {IntVal(7), FloatVal(37, 10), NoneVal}

StartSubscriptions == {IntVal(55), StrVal(<<"x">>)}

StartTransactions == {IntVal(90), NoneVal}

ColsAbsent == [absent |-> TRUE, d |-> EmptyDict]

ColsGiven(d) == [absent |-> FALSE, d |-> d]

ColumnConfigs ==
    { [product_columns |-> ColsAbsent, gateway_columns |-> ColsAbsent],
      [product_columns |->
          ColsGiven([t \in Tables |->
              IF t = "members" THEN <<"subscr_id", "memberships">>
              ELSE IF t = "subscriptions" THEN <<"subscr_id", "product_id">>
              ELSE <<"product_id", "plan">>]),
       gateway_columns |->
          ColsGiven([t \in {"transactions"} |-> <<"gateway", "subscr_id">>])] }

MappingConfigs ==
    { [products |-> Dict(<< <<<<"G">>, <<Space, "P">>>> >>),
       gateways |-> Dict(<< <<<<"s">>, <<"T">>>>, <<<<"G">>, <<"T">>>> >>)] }

CfgInputs ==
    [start_ids : [members : StartMembers, subscriptions : StartSubscriptions,
                  transactions : StartTransactions],
     columns : ColumnConfigs,
     mappings : MappingConfigs]

\* Inputs of a run: the three CSV exports
MemPool ==
    { [ID |-> <<"7">>, id |-> <<"1">>, memberships |-> <<Space, "G", ";", Space, "S">>,
       subscr_id |-> <<"G">>],
      [ID |-> <<Space, "7">>, id |-> <<"1">>, memberships |-> <<>>, subscr_id |-> <<Space>>],
      [ID |-> <<"8">>, id |-> <<"2">>, memberships |-> <<"S">>, subscr_id |-> <<"G">>] }

SubPool ==
    { [id |-> <<"5", "5">>, user_id |-> <<Space, "7">>, subscr_id |-> <<"G">>,
       product_id |-> <<"G">>, gateway |-> <<"s">>],
      [id |-> <<"5", "6", Space>>, user_id |-> <<Space, "9">>, subscr_id |-> <<"s">>,
       product_id |-> <<Space>>, gateway |-> <<"x">>],
      [id |-> <<Space, "5", "5">>, user_id |-> <<"8">>, subscr_id |-> <<"G">>,
       product_id |-> <<"x">>, gateway |-> <<>>] }

TxPool ==
    { [id |-> <<"9">>, user_id |-> <<"8", Space>>, sub_id |-> <<"5", "6">>,
       subscr_id |-> <<"G">>, product_id |-> <<Space, "G">>, gateway |-> <<>>],
      [id |-> <<>>, user_id |-> <<>>, sub_id |-> <<Space, "7", "7">>,
       subscr_id |-> <<"a", "b">>, product_id |-> <<"x">>, gateway |-> <<"s">>] }

FullSchema ==
    [members |-> <<"ID", "id", "memberships", "subscr_id">>,
     subscriptions |-> <<"id", "user_id", "subscr_id", "product_id", "gateway">>,
     transactions |-> <<"id", "user_id", "sub_id", "subscr_id", "product_id", "gateway">>]

Schemas ==
    { FullSchema,
      [members |-> <<"id", "memberships">>,
       subscriptions |-> <<"id", "product_id", "subscr_id">>,
       transactions |-> <<"gateway", "sub_id", "id">>],
      [FullSchema EXCEPT !.members = <<"memberships", "subscr_id">>],
      [FullSchema EXCEPT !.subscriptions = <<"user_id", "product_id">>],
      [FullSchema EXCEPT !.transactions = <<"user_id", "sub_id">>] }

\* read_csv_keep_order: every row holds exactly the header columns
Table(headers, pool_rows) ==
    [headers |-> headers,
     rows |-> [i \in 1..Len(pool_rows) |-> [h \in Range(headers) |-> pool_rows[i][h]]]]

InitMain ==
    /\ pc = "start"
    /\ MainIdle
    /\ args = NoCall
    /\ ret = NoCall

\* lines 198-234: configuration, lookup mappings and starting ids
LoadConfig ==
    /\ pc = "start"
    /\ \E c \in CfgInputs :
          LET sm == py_int(c.start_ids.members)
              ss == py_int(c.start_ids.subscriptions)
              st == py_int(c.start_ids.transactions)
          IN  /\ cfg' = [raw |-> c,
                         product_cols |->
                            [t \in Tables |->
                                ColsOf(c.columns.product_columns, t, default_product_cols)],
                         gateway_cols |->
                            [t \in {"subscriptions", "transactions"} |->
                                ColsOf(c.columns.gateway_columns, t, default_gateway_cols)],
                         products_map |-> build_mapping(c.mappings.products),
                         gateways_map |-> build_mapping(c.mappings.gateways),
                         start_members |-> sm.v,
                         start_subs |-> ss.v,
                         start_txs |-> st.v]
              /\ IF sm.ok /\ ss.ok /\ st.ok
                 THEN pc' = "read" /\ ret' = ret
                 ELSE pc' = "failed" /\ ret' = [error |-> "start_ids must be integers"]
    /\ UNCHANGED <<mem, sub, tx, orig, member_id_map, subs_id_map, tx_id_map, out, args>>

\* lines 236-249: the three tables and the checks on them
ReadInputs ==
    /\ pc = "read"
    /\ \E sch \in Schemas, mr \in SeqsUpTo(MemPool, MaxRows),
          sr \in SeqsUpTo(SubPool, MaxRows), tr \in SeqsUpTo(TxPool, MaxRows) :
          LET m == Table(sch.members, mr)
              s == Table(sch.subscriptions, sr)
              t == Table(sch.transactions, tr)
          IN  /\ mem' = m /\ sub' = s /\ tx' = t
              /\ orig' = [members |-> m, subscriptions |-> s, transactions |-> t]
              /\ IF m.rows = <<>> /\ s.rows = <<>> /\ t.rows = <<>>
                 THEN pc' = "failed" /\ ret' = [error |-> "No rows found in inputs"]
                 ELSE IF member_id_col(m.headers) = NoIdCol
                 THEN pc' = "failed" /\ ret' = [error |-> "Members CSV must have an ID column"]
                 ELSE IF "id" \notin Range(s.headers)
                 THEN pc' = "failed" /\ ret' = [error |-> "Subscriptions CSV must have an id column"]
                 ELSE IF "id" \notin Range(t.headers)
                 THEN pc' = "failed" /\ ret' = [error |-> "Transactions CSV must have an id column"]
                 ELSE pc' = "build" /\ ret' = ret
    /\ UNCHANGED <<cfg, member_id_map, subs_id_map, tx_id_map, out, args>>

\* lines 251-253
BuildIdMaps ==
    /\ pc = "build"
    /\ member_id_map' = build_id_map_sequential(mem.rows, member_id_col(mem.headers),
                                                cfg.start_members)
    /\ subs_id_map' = build_id_map_sequential(sub.rows, "id", cfg.start_subs)
    /\ tx_id_map' = build_id_map_sequential(tx.rows, "id", cfg.start_txs)
    /\ pc' = "remap_own"
    /\ UNCHANGED <<cfg, mem, sub, tx, orig, out, args, ret>>

\* lines 255-257
RemapOwnIds ==
    /\ pc = "remap_own"
    /\ mem' = [mem EXCEPT !.rows =
                  remap_column_using_map(mem.rows, member_id_col(mem.headers), member_id_map)]
    /\ sub' = [sub EXCEPT !.rows = remap_column_using_map(sub.rows, "id", subs_id_map)]
    /\ tx' = [tx EXCEPT !.rows = remap_column_using_map(tx.rows, "id", tx_id_map)]
    /\ pc' = "remap_fk"
    /\ UNCHANGED <<cfg, orig, member_id_map, subs_id_map, tx_id_map, out, args, ret>>

\* lines 259-264
RemapForeignKeys ==
    /\ pc = "remap_fk"
    /\ sub' = [sub EXCEPT !.rows =
                  IF "user_id" \in Range(sub.headers)
                  THEN remap_column_using_map(sub.rows, "user_id", member_id_map)
                  ELSE sub.rows]
    /\ LET tx1 == IF "user_id" \in Range(tx.headers)
                  THEN remap_column_using_map(tx.rows, "user_id", member_id_map)
                  ELSE tx.rows
           tx2 == IF "sub_id" \in Range(tx.headers)
                  THEN remap_column_using_map(tx1, "sub_id", subs_id_map)
                  ELSE tx1
       IN  tx' = [tx EXCEPT !.rows = tx2]
    /\ pc' = "apply"
    /\ UNCHANGED <<cfg, mem, orig, member_id_map, subs_id_map, tx_id_map, out, args, ret>>

\* lines 266-272
ApplyValueMappings ==
    /\ pc = "apply"
    /\ mem' = [mem EXCEPT !.rows =
                  apply_multivalue_mapping(mem.rows, cfg.product_cols["members"],
                                           cfg.products_map).rows]
    /\ LET s1 == apply_column_value_mapping(sub.rows, cfg.product_cols["subscriptions"],
                                            cfg.products_map, hard_forbid_value_columns).rows
           s2 == apply_column_value_mapping(s1, cfg.gateway_cols["subscriptions"],
                                            cfg.gateways_map, hard_forbid_value_columns).rows
       IN  sub' = [sub EXCEPT !.rows = s2]
    /\ LET t1 == apply_column_value_mapping(tx.rows, cfg.product_cols["transactions"],
                                            cfg.products_map, hard_forbid_value_columns).rows
           t2 == apply_column_value_mapping(t1, cfg.gateway_cols["transactions"],
                                            cfg.gateways_map, hard_forbid_value_columns).rows
       IN  tx' = [tx EXCEPT !.rows = t2]
    /\ pc' = "write_members"
    /\ UNCHANGED <<cfg, orig, member_id_map, subs_id_map, tx_id_map, out, args, ret>>

\* line 279
WriteMembers ==
    /\ pc = "write_members"
    /\ out' = Put(out, "members_import.csv", write_csv_exact_headers(mem.headers, mem.rows))
    /\ pc' = "write_subscriptions"
    /\ UNCHANGED <<cfg, mem, sub, tx, orig, member_id_map, subs_id_map, tx_id_map, args, ret>>

\* line 280
WriteSubscriptions ==
    /\ pc = "write_subscriptions"
    /\ out' = Put(out, "subscriptions_import.csv", write_csv_exact_headers(sub.headers, sub.rows))
    /\ pc' = "write_transactions"
    /\ UNCHANGED <<cfg, mem, sub, tx, orig, member_id_map, subs_id_map, tx_id_map, args, ret>>

\* line 281
WriteTransactions ==
    /\ pc = "write_transactions"
    /\ out' = Put(out, "transactions_import.csv", write_csv_exact_headers(tx.headers, tx.rows))
    /\ pc' = "done"
    /\ UNCHANGED <<cfg, mem, sub, tx, orig, member_id_map, subs_id_map, tx_id_map, args, ret>>

Next ==
    \/ LoadConfig
    \/ ReadInputs
    \/ BuildIdMaps
    \/ RemapOwnIds
    \/ RemapForeignKeys
    \/ ApplyValueMappings
    \/ WriteMembers
    \/ WriteSubscriptions
    \/ WriteTransactions

Spec == InitMain /\ [][Next]_vars

Cur(t) == IF t = "members" THEN mem ELSE IF t = "subscriptions" THEN sub ELSE tx

IdCol(t) == IF t = "members" THEN member_id_col(orig[t].headers) ELSE "id"

IdMap(t) ==
    IF t = "members" THEN member_id_map
    ELSE IF t = "subscriptions" THEN subs_id_map ELSE tx_id_map

\* the trimmed original ids of table t
OrigIds(t) == {strip(orig[t].rows[i][IdCol(t)]) : i \in 1..Len(orig[t].rows)}

\* C2: once a table's id column has been remapped with the table's own id
\* mapping, every id cell is a value of that mapping, and rows whose original
\* ids were equal after trimming hold the same new id.
C2_OwnIdsRemapped ==
    pc \in {"remap_fk", "apply"} =>
        \A t \in Tables :
            /\ Len(Cur(t).rows) = Len(orig[t].rows)
            /\ \A i \in 1..Len(orig[t].rows) :
                  /\ Cur(t).rows[i][IdCol(t)] \in Range(IdMap(t))
                  /\ \A j \in 1..Len(orig[t].rows) :
                        strip(orig[t].rows[i][IdCol(t)]) = strip(orig[t].rows[j][IdCol(t)])
                            => Cur(t).rows[i][IdCol(t)] = Cur(t).rows[j][IdCol(t)]

\* Two member rows with the same id padded differently, a padded
\* subscription id and a transaction with an empty id, all renumbered
C2_Witness ==
    /\ pc = "remap_fk"
    /\ \E i, j \in 1..Len(orig["members"].rows) :
          /\ orig["members"].rows[i][IdCol("members")] # orig["members"].rows[j][IdCol("members")]
          /\ strip(orig["members"].rows[i][IdCol("members")])
                = strip(orig["members"].rows[j][IdCol("members")])
    /\ \E i \in 1..Len(orig["subscriptions"].rows) :
          strip(orig["subscriptions"].rows[i]["id"]) # orig["subscriptions"].rows[i]["id"]
    /\ \E i \in 1..Len(orig["transactions"].rows) :
          orig["transactions"].rows[i]["id"] = EmptyStr

\* the foreign-key column col of table child refers to table parent
ForeignKeyFollows(child, col, parent) ==
    col \in Range(orig[child].headers) =>
        \A i \in 1..Len(orig[child].rows) :
            LET old == orig[child].rows[i][col]
                refs == {j \in 1..Len(orig[parent].rows) :
                            strip(orig[parent].rows[j][IdCol(parent)]) = strip(old)}
            IN  IF refs # {}
                THEN \A j \in refs : Cur(child).rows[i][col] = Cur(parent).rows[j][IdCol(parent)]
                ELSE Cur(child).rows[i][col] = old

ForeignKeyCols(t) ==
    IF t = "subscriptions" THEN {"user_id"}
    ELSE IF t = "transactions" THEN {"user_id", "sub_id"} ELSE {}

\* C3: the id mappings are built from the original ids; after the
\* foreign-key step a foreign-key cell that refers to an original id of the
\* referenced table holds the new id of that row, any other foreign-key cell
\* holds exactly its original content, an id cell holds the mapping of its
\* original id applied once, and no other cell has changed.
C3_ForeignKeysFollow ==
    /\ pc \in {"remap_own", "remap_fk", "apply"} =>
          \A t \in Tables : DOMAIN IdMap(t) = OrigIds(t)
    /\ pc = "remap_own" => (mem = orig["members"] /\ sub = orig["subscriptions"]
                               /\ tx = orig["transactions"])
    /\ pc = "apply" =>
          /\ ForeignKeyFollows("subscriptions", "user_id", "members")
          /\ ForeignKeyFollows("transactions", "user_id", "members")
          /\ ForeignKeyFollows("transactions", "sub_id", "subscriptions")
          /\ \A t \in Tables : \A i \in 1..Len(orig[t].rows) :
                /\ Cur(t).rows[i][IdCol(t)] = IdMap(t)[strip(orig[t].rows[i][IdCol(t)])]
                /\ \A h \in Range(orig[t].headers) \ ({IdCol(t)} \cup ForeignKeyCols(t)) :
                      Cur(t).rows[i][h] = orig[t].rows[i][h]

\* A padded user_id of a known member, a padded user_id of no member, a
\* sub_id of a known and one of an unknown subscription, and a new member id
\* that equals another member's original id
C3_Witness ==
    /\ pc = "apply"
    /\ orig["subscriptions"].headers = FullSchema.subscriptions
    /\ orig["transactions"].headers = FullSchema.transactions
    /\ \E i \in 1..Len(sub.rows) :
          /\ strip(orig["subscriptions"].rows[i]["user_id"]) \in OrigIds("members")
          /\ sub.rows[i]["user_id"] # orig["subscriptions"].rows[i]["user_id"]
          /\ sub.rows[i]["user_id"] # strip(orig["subscriptions"].rows[i]["user_id"])
    /\ \E i \in 1..Len(sub.rows) :
          /\ strip(orig["subscriptions"].rows[i]["user_id"]) \notin OrigIds("members")
          /\ strip(orig["subscriptions"].rows[i]["user_id"]) # orig["subscriptions"].rows[i]["user_id"]
    /\ \E i \in 1..Len(tx.rows) :
          strip(orig["transactions"].rows[i]["sub_id"]) \in OrigIds("subscriptions")
    /\ \E i \in 1..Len(tx.rows) :
          strip(orig["transactions"].rows[i]["sub_id"]) \notin OrigIds("subscriptions")
    /\ \E k \in DOMAIN member_id_map :
          member_id_map[k] # k /\ member_id_map[k] \in DOMAIN member_id_map

TablesRead == DOMAIN orig # {}

\* C4: no step of a run alters a subscr_id cell, in any of the three
\* tables, whatever the configured product and gateway columns and lookup
\* mappings are.
C4_ForbiddenNeverAltered ==
    TablesRead =>
        \A t \in Tables :
            "subscr_id" \in Range(orig[t].headers) =>
                \A i \in 1..Len(orig[t].rows) :
                    Cur(t).rows[i]["subscr_id"] = orig[t].rows[i]["subscr_id"]

OutFile(t) ==
    IF t = "members" THEN "members_import.csv"
    ELSE IF t = "subscriptions" THEN "subscriptions_import.csv"
    ELSE "transactions_import.csv"

OutFiles == {OutFile(t) : t \in Tables}

\* configured product and gateway columns present in the header, not forbidden
EffectiveValueCols(t) ==
    ((Range(cfg.product_cols[t])
        \cup (IF t = "members" THEN {} ELSE Range(cfg.gateway_cols[t])))
      \cap Range(orig[t].headers)) \ hard_forbid_value_columns

TransformedCols(t) ==
    {IdCol(t)} \cup ({"user_id", "sub_id"} \cap Range(orig[t].headers))
               \cup EffectiveValueCols(t)

\* C5: a completed run writes each table with its original header list and
\* row count, and every cell outside the id column, the foreign-key columns
\* and the effective value-mapping columns with its original content.
C5_FramePreserved ==
    pc = "done" =>
        \A t \in Tables :
            /\ out[OutFile(t)].headers = orig[t].headers
            /\ Len(out[OutFile(t)].rows) = Len(orig[t].rows)
            /\ \A i \in 1..Len(orig[t].rows) :
                  /\ DOMAIN out[OutFile(t)].rows[i] = Range(orig[t].headers)
                  /\ \A h \in Range(orig[t].headers) \ TransformedCols(t) :
                        out[OutFile(t)].rows[i][h] = orig[t].rows[i][h]

\* a starting id that is missing or not an integer
StartInvalid(x) ==
    \/ x.t = "none"
    \/ x.t = "float" /\ x.num % x.den # 0
    \/ x.t = "str" /\ ~IsDecimal(strip(x.s))

PreconditionFails ==
    \/ /\ pc # "start"
       /\ \E t \in Tables : StartInvalid(cfg.raw.start_ids[t])
    \/ /\ TablesRead
       /\ \/ \A t \in Tables : orig[t].rows = <<>>
          \/ member_id_col(orig["members"].headers) = NoIdCol
          \/ "id" \notin Range(orig["subscriptions"].headers)
          \/ "id" \notin Range(orig["transactions"].headers)

NothingDone ==
    /\ out = EmptyDict
    /\ member_id_map = EmptyDict /\ subs_id_map = EmptyDict /\ tx_id_map = EmptyDict
    /\ TablesRead => (mem = orig["members"] /\ sub = orig["subscriptions"]
                         /\ tx = orig["transactions"])

\* C6: a run whose starting ids are missing or non-integer, whose tables are
\* all empty or lack a required id column stops with an error before any
\* remapping, value mapping or output; any other run is not stopped and ends
\* with all three output files written.
C6_FailFast ==
    /\ PreconditionFails => (pc = "failed" /\ NothingDone)
    /\ pc = "failed" => (PreconditionFails /\ NothingDone)
    /\ pc = "done" => DOMAIN out = OutFiles
    /\ DOMAIN out \notin {{}, OutFiles} => pc \in {"write_subscriptions", "write_transactions"}

====
